---- MODULE Spec2Model ----
(***************************************************************************)
(* USBasp firmware: the command dispatcher (usbFunctionSetup), the chunked *)
(* reader (usbFunctionRead) and the chunked writer (usbFunctionWrite), as  *)
(* a state machine over the static session variables of main.c.            *)
(*                                                                         *)
(* Two revisions of the firmware are modelled: the 2009 one (ten vendor    *)
(* commands, 32-bit address, HID class requests in front of the            *)
(* dispatcher) and the 2006 one (eight commands, 16-bit address).  The     *)
(* variable firmware says which one runs; it never changes.                *)
(***************************************************************************)
EXTENDS Integers, Sequences, FiniteSets, TLC

VARIABLES
    firmware,              \* which revision of main.c runs
    prog_state,            \* static uchar prog_state
    prog_sck,              \* static uchar prog_sck            (2009 only)
    prog_address_newmode,  \* static uchar prog_address_newmode (2009 only)
    prog_address,          \* unsigned long (2009) / unsigned int (2006)
    prog_nbytes,           \* static unsigned int prog_nbytes
    prog_pagesize,         \* static unsigned int prog_pagesize
    prog_blockflags,       \* static uchar prog_blockflags
    prog_pagecounter,      \* static uchar prog_pagecounter
    idleRate,              \* static uchar idleRate             (2009 only)
    xfer                   \* bookkeeping of the transfer armed last

vars == << firmware, prog_state, prog_sck, prog_address_newmode, prog_address,
           prog_nbytes, prog_pagesize, prog_blockflags, prog_pagecounter,
           idleRate, xfer >>

(***************************************************************************)
(* Program constants                                                       *)
(***************************************************************************)
USBASP_FUNC_CONNECT == 1
USBASP_FUNC_DISCONNECT == 2
USBASP_FUNC_TRANSMIT == 3
USBASP_FUNC_READFLASH == 4
USBASP_FUNC_ENABLEPROG == 5
USBASP_FUNC_WRITEFLASH == 6
USBASP_FUNC_READEEPROM == 7
USBASP_FUNC_WRITEEEPROM == 8
USBASP_FUNC_SETLONGADDRESS == 9
USBASP_FUNC_SETISPSCK == 10

PROG_STATE_IDLE == 0
PROG_STATE_WRITEFLASH == 1
PROG_STATE_READFLASH == 2
PROG_STATE_READEEPROM == 3
PROG_STATE_WRITEEEPROM == 4

PROG_BLOCKFLAG_FIRST == 1
PROG_BLOCKFLAG_LAST == 2

USBRQ_TYPE_MASK == 96
USBRQ_TYPE_CLASS == 32
USBRQ_HID_GET_REPORT == 1
USBRQ_HID_GET_IDLE == 2
USBRQ_HID_SET_IDLE == 10

USBASP_ISP_SCK_AUTO == 0
USBASP_ISP_SCK_8 == 5
ISP_SCK_SLOW == 0
ISP_SCK_FAST == 1

\* The error sentinel of the reader and the writer, and the "multiple in/out"
\* marker of the dispatcher.
NoData == 255

\* The capacity of one transport chunk: the reader takes a shorter chunk as
\* the last one.
ChunkCapacity == 8

(***************************************************************************)
(* Widths of the C types on the target (ATmega8, avr-gcc)                  *)
(***************************************************************************)
UCharMod == 256
UIntMod == 65536

FW2006 == "main.c 2006"
FW2009 == "main.c 2009"

\* An address is the pair << high word, low word >> of 16-bit words, standing
\* for high * 65536 + low.  prog_address is an unsigned long in the 2009
\* firmware (both words) and an unsigned int in the 2006 firmware (the high
\* word stays 0).  AddressSum is the sum in the integers, where the high word
\* may pass 65535; AddressPlus is what the variable holds after the addition.
AddressSum(a, n) ==
    << a[1] + (a[2] + n) \div UIntMod, (a[2] + n) % UIntMod >>

AddressPlus(fw, a, n) ==
    IF fw = FW2009
    THEN << AddressSum(a, n)[1] % UIntMod, AddressSum(a, n)[2] >>
    ELSE << 0, AddressSum(a, n)[2] >>

(***************************************************************************)
(* Bit operations on bytes                                                 *)
(***************************************************************************)
\* x & y
RECURSIVE BitAnd(_, _)
BitAnd(x, y) ==
    IF x = 0 \/ y = 0
    THEN 0
    ELSE (x % 2) * (y % 2) + 2 * BitAnd(x \div 2, y \div 2)

\* data[k] of the C array (0-based) in the 8-byte request
Byte(data, k) == data[k + 1]

(***************************************************************************)
(* The session as one record, and the primitives' call records             *)
(***************************************************************************)
Session ==
    [ firmware |-> firmware,
      prog_state |-> prog_state,
      prog_sck |-> prog_sck,
      prog_address_newmode |-> prog_address_newmode,
      prog_address |-> prog_address,
      prog_nbytes |-> prog_nbytes,
      prog_pagesize |-> prog_pagesize,
      prog_blockflags |-> prog_blockflags,
      prog_pagecounter |-> prog_pagecounter,
      idleRate |-> idleRate ]

\* One invocation of a primitive of isp.c (or of an LED macro): its name, the
\* address and the byte it was given, its mode argument, and the index i of
\* the chunk byte the handler was at (0 for the dispatcher).
NoAddress == << 0, 0 >>

Call(op, addr, val, mode, i) ==
    [ op |-> op, addr |-> addr, val |-> val, mode |-> mode, i |-> i ]

(***************************************************************************)
(* usbFunctionSetup: the command dispatcher                                *)
(*                                                                         *)
(* A request rq carries the 8 bytes of the setup packet (data) and what    *)
(* the hardware answers while the handler runs: the level of the strap pin *)
(* PC2, the bytes ispTransmit returns (miso), the status                   *)
(* ispEnterProgrammingMode returns, and signExtends, the outcome of the    *)
(* signed shift (data[3] << 8) when data[3] >= 0x80.                       *)
(***************************************************************************)
Out(s, len, rep, cs, branch) ==
    [ s |-> s, len |-> len, reply |-> rep, calls |-> cs, branch |-> branch ]

\* (rq->bmRequestType & USBRQ_TYPE_MASK) == USBRQ_TYPE_CLASS
IsClassRequest(data) ==
    BitAnd(Byte(data, 0), USBRQ_TYPE_MASK) = USBRQ_TYPE_CLASS

\* (data[3] << 8) | data[2], assigned to prog_address.  In the 2006 firmware
\* the target is an unsigned int and the value is data[3]*256 + data[2].  In
\* the 2009 firmware the target is an unsigned long: the int expression
\* overflows for data[3] >= 0x80, and the build either sign-extends the
\* 16-bit int (avr-gcc, high word 0xFFFF) or keeps the value.
LegacyAddress(fw, rq) ==
    LET word == Byte(rq.data, 3) * UCharMod + Byte(rq.data, 2)
    IN  IF fw = FW2009 /\ Byte(rq.data, 3) >= UCharMod \div 2 /\ rq.signExtends
        THEN << UIntMod - 1, word >>
        ELSE << 0, word >>

\* if (!prog_address_newmode) prog_address = (data[3] << 8) | data[2];
ArmAddressAlwaysLegacy(s, rq) ==
    LegacyAddress(s.firmware, rq)

ArmAddressLowWordFromField(s, rq) ==
    IF s.firmware = FW2009 /\ s.prog_address_newmode # 0
    THEN << s.prog_address[1], LegacyAddress(s.firmware, rq)[2] >>
    ELSE LegacyAddress(s.firmware, rq)

ArmAddress(s, rq) ==
    IF s.firmware = FW2009 /\ s.prog_address_newmode # 0
    THEN s.prog_address
    ELSE LegacyAddress(s.firmware, rq)

\* prog_nbytes = (data[7] << 8) | data[6];
DecodeNBytes(data) ==
    (Byte(data, 7) * UCharMod + Byte(data, 6)) % UIntMod

\* prog_pagesize = data[4]; prog_pagesize += (((unsigned int) data[5] & 0xF0) << 4);
DecodePageSize(data) ==
    (Byte(data, 4) + BitAnd(Byte(data, 5), 240) * 16) % UIntMod

\* prog_blockflags = data[5] & 0x0F;
DecodeBlockFlags(data) ==
    BitAnd(Byte(data, 5), 15)

\* *((unsigned long*) &data[2]), little endian
DecodeLongAddress(data) ==
    << Byte(data, 4) + UCharMod * Byte(data, 5),
       Byte(data, 2) + UCharMod * Byte(data, 3) >>

SetupHid(s, rq) ==
    IF Byte(rq.data, 1) = USBRQ_HID_GET_REPORT
    THEN Out(s, 2, << >>, << >>, "hid")
    ELSE IF Byte(rq.data, 1) = USBRQ_HID_GET_IDLE
    THEN Out(s, 1, << s.idleRate >>, << >>, "hid")
    ELSE Out([s EXCEPT !.idleRate = Byte(rq.data, 3)], 1, << >>, << >>, "hid")

SetupConnect(s, rq) ==
    IF s.firmware = FW2009
    THEN Out([s EXCEPT !.prog_address_newmode = 0], 0, << >>,
             << Call("ispSetSCKOption", NoAddress,
                     IF rq.PC2 = 0 THEN USBASP_ISP_SCK_8 ELSE s.prog_sck, 0, 0),
                Call("ledRedOn", NoAddress, 0, 0, 0),
                Call("ispConnect", NoAddress, 0, 0, 0) >>,
             "connect")
    ELSE Out(s, 0, << >>,
             << Call("ispSetSCKOption", NoAddress,
                     IF rq.PC2 = 0 THEN ISP_SCK_SLOW ELSE ISP_SCK_FAST, 0, 0),
                Call("ispConnect", NoAddress, 0, 0, 0),
                Call("ledRedOn", NoAddress, 0, 0, 0) >>,
             "connect")

SetupDisconnectAborts(s, rq) ==
    Out([s EXCEPT !.prog_state = PROG_STATE_IDLE], 0, << >>,
        << Call("ispDisconnect", NoAddress, 0, 0, 0), Call("ledRedOff", NoAddress, 0, 0, 0) >>,
        "disconnect")

SetupDisconnect(s, rq) ==
    Out(s, 0, << >>,
        << Call("ispDisconnect", NoAddress, 0, 0, 0), Call("ledRedOff", NoAddress, 0, 0, 0) >>,
        "disconnect")

SetupTransmit(s, rq) ==
    Out(s, 4, rq.miso,
        [ k \in 1..4 |-> Call("ispTransmit", NoAddress, Byte(rq.data, k + 1), 0, 0) ],
        "transmit")

SetupRead(s, rq, state) ==
    Out([s EXCEPT !.prog_address = ArmAddress(s, rq),
                  !.prog_nbytes = DecodeNBytes(rq.data),
                  !.prog_state = state],
        NoData, << >>, << >>, "arm")

SetupEnableProg(s, rq) ==
    Out(s, 1, << rq.status >>,
        << Call("ispEnterProgrammingMode", NoAddress, 0, 0, 0) >>, "enableprog")

SetupWriteFlashAlwaysResets(s, rq) ==
    LET pagesize == DecodePageSize(rq.data)
    IN  Out([s EXCEPT !.prog_address = ArmAddress(s, rq),
                      !.prog_pagesize = pagesize,
                      !.prog_blockflags = DecodeBlockFlags(rq.data),
                      !.prog_pagecounter = pagesize % UCharMod,
                      !.prog_nbytes = DecodeNBytes(rq.data),
                      !.prog_state = PROG_STATE_WRITEFLASH],
            NoData, << >>, << >>, "arm")

SetupWriteFlash(s, rq) ==
    LET pagesize == DecodePageSize(rq.data)
        blockflags == DecodeBlockFlags(rq.data)
    IN  Out([s EXCEPT !.prog_address = ArmAddress(s, rq),
                      !.prog_pagesize = pagesize,
                      !.prog_blockflags = blockflags,
                      !.prog_pagecounter =
                          IF BitAnd(blockflags, PROG_BLOCKFLAG_FIRST) # 0
                          THEN pagesize % UCharMod
                          ELSE s.prog_pagecounter,
                      !.prog_nbytes = DecodeNBytes(rq.data),
                      !.prog_state = PROG_STATE_WRITEFLASH],
            NoData, << >>, << >>, "arm")

SetupWriteEEPROMKeepsPaging(s, rq) ==
    Out([s EXCEPT !.prog_address = ArmAddress(s, rq),
                  !.prog_nbytes = DecodeNBytes(rq.data),
                  !.prog_state = PROG_STATE_WRITEEEPROM],
        NoData, << >>, << >>, "arm")

SetupWriteEEPROM(s, rq) ==
    Out([s EXCEPT !.prog_address = ArmAddress(s, rq),
                  !.prog_pagesize = 0,
                  !.prog_blockflags = 0,
                  !.prog_nbytes = DecodeNBytes(rq.data),
                  !.prog_state = PROG_STATE_WRITEEEPROM],
        NoData, << >>, << >>, "arm")

SetupLongAddress(s, rq) ==
    Out([s EXCEPT !.prog_address_newmode = 1,
                  !.prog_address = DecodeLongAddress(rq.data)],
        0, << >>, << >>, "setlongaddress")

SetupIspSckDropsSelector(s, rq) ==
    Out(s, 1, << 0 >>, << >>, "setispsck")

SetupIspSck(s, rq) ==
    Out([s EXCEPT !.prog_sck = Byte(rq.data, 2)], 1, << 0 >>, << >>, "setispsck")

\* No branch of the if-chain is taken: len stays 0.
SetupNoneDisarms(s, rq) ==
    Out([s EXCEPT !.prog_state = PROG_STATE_IDLE], 0, << >>, << >>, "none")

SetupNone(s, rq) ==
    Out(s, 0, << >>, << >>, "none")

Setup(s, rq) ==
    LET bRequest == Byte(rq.data, 1)
    IN  IF /\ s.firmware = FW2009
           /\ IsClassRequest(rq.data)
           /\ bRequest \in {USBRQ_HID_GET_REPORT, USBRQ_HID_GET_IDLE, USBRQ_HID_SET_IDLE}
        THEN SetupHid(s, rq)
        ELSE IF bRequest = USBASP_FUNC_CONNECT THEN SetupConnect(s, rq)
        ELSE IF bRequest = USBASP_FUNC_DISCONNECT THEN SetupDisconnect(s, rq)
        ELSE IF bRequest = USBASP_FUNC_TRANSMIT THEN SetupTransmit(s, rq)
        ELSE IF bRequest = USBASP_FUNC_READFLASH
        THEN SetupRead(s, rq, PROG_STATE_READFLASH)
        ELSE IF bRequest = USBASP_FUNC_READEEPROM
        THEN SetupRead(s, rq, PROG_STATE_READEEPROM)
        ELSE IF bRequest = USBASP_FUNC_ENABLEPROG THEN SetupEnableProg(s, rq)
        ELSE IF bRequest = USBASP_FUNC_WRITEFLASH THEN SetupWriteFlash(s, rq)
        ELSE IF bRequest = USBASP_FUNC_WRITEEEPROM THEN SetupWriteEEPROM(s, rq)
        ELSE IF s.firmware = FW2009 /\ bRequest = USBASP_FUNC_SETLONGADDRESS
        THEN SetupLongAddress(s, rq)
        ELSE IF s.firmware = FW2009 /\ bRequest = USBASP_FUNC_SETISPSCK
        THEN SetupIspSck(s, rq)
        ELSE SetupNone(s, rq)

(***************************************************************************)
(* usbFunctionRead: the chunked reader                                     *)
(*                                                                         *)
(* The reader and the writer work on a record w: the session s, the        *)
(* primitives invoked so far (calls) and the value to return (retVal).     *)
(***************************************************************************)
Work(s) == [ s |-> s, calls |-> << >>, retVal |-> 0 ]

\* prog_address++
IncAddressLowWord(s) ==
    [s EXCEPT !.prog_address = << @[1], (@[2] + 1) % UIntMod >>]

IncAddress(s) ==
    [s EXCEPT !.prog_address = AddressPlus(s.firmware, s.prog_address, 1)]

\* (prog_state != PROG_STATE_READFLASH) && (prog_state != PROG_STATE_READEEPROM)
ReadStateWrong(s) ==
    s.prog_state # PROG_STATE_READFLASH /\ s.prog_state # PROG_STATE_READEEPROM

\* One pass of the fill loop: data[i] = ispReadFlash/ispReadEEPROM(prog_address)
ReadByte(w, i) ==
    LET op == IF w.s.prog_state = PROG_STATE_READFLASH
              THEN "ispReadFlash" ELSE "ispReadEEPROM"
    IN  [w EXCEPT !.calls = Append(@, Call(op, w.s.prog_address, 0, 0, i)),
                  !.s = IncAddress(@)]

RECURSIVE ReadLoop(_, _, _)
ReadLoop(w, len, i) ==
    IF i >= len THEN w ELSE ReadLoop(ReadByte(w, i), len, i + 1)

\* last packet?  if (len < 8) prog_state = PROG_STATE_IDLE;
LastPacketWhenEmpty(w, len) ==
    IF len = 0
    THEN [w EXCEPT !.s.prog_state = PROG_STATE_IDLE]
    ELSE w

LastPacket(w, len) ==
    IF len < ChunkCapacity
    THEN [w EXCEPT !.s.prog_state = PROG_STATE_IDLE]
    ELSE w

Read(s, len) ==
    IF ReadStateWrong(s)
    THEN [Work(s) EXCEPT !.retVal = NoData]
    ELSE [LastPacket(ReadLoop(Work(s), len, 0), len) EXCEPT !.retVal = len]

(***************************************************************************)
(* usbFunctionWrite: the chunked writer                                    *)
(***************************************************************************)
\* (prog_state != PROG_STATE_WRITEFLASH) && (prog_state != PROG_STATE_WRITEEEPROM)
WriteStateWrongUnlessIdle(s) ==
    s.prog_state = PROG_STATE_READFLASH \/ s.prog_state = PROG_STATE_READEEPROM

WriteStateWrong(s) ==
    s.prog_state # PROG_STATE_WRITEFLASH /\ s.prog_state # PROG_STATE_WRITEEEPROM

\* The paged branch: write into the page buffer, count down, flush at zero.
PagedWriteNoReset(w, b, i) ==
    LET written == Append(w.calls, Call("ispWriteFlash", w.s.prog_address, b, 0, i))
        counter == (w.s.prog_pagecounter + UCharMod - 1) % UCharMod
    IN  IF counter = 0
        THEN [w EXCEPT !.calls = Append(written,
                                        Call("ispFlushPage", w.s.prog_address, b, 0, i)),
                       !.s.prog_pagecounter = counter]
        ELSE [w EXCEPT !.calls = written, !.s.prog_pagecounter = counter]

PagedWrite(w, b, i) ==
    LET written == Append(w.calls, Call("ispWriteFlash", w.s.prog_address, b, 0, i))
        counter == (w.s.prog_pagecounter + UCharMod - 1) % UCharMod
    IN  IF counter = 0
        THEN [w EXCEPT !.calls = Append(written,
                                        Call("ispFlushPage", w.s.prog_address, b, 0, i)),
                       !.s.prog_pagecounter = w.s.prog_pagesize % UCharMod]
        ELSE [w EXCEPT !.calls = written, !.s.prog_pagecounter = counter]

\* The flash branch of the loop body.
FlashWriteNeverCommits(w, b, i) ==
    IF w.s.prog_pagesize = 0
    THEN [w EXCEPT !.calls = Append(@, Call("ispWriteFlash", w.s.prog_address, b, 0, i))]
    ELSE PagedWrite(w, b, i)

FlashWrite(w, b, i) ==
    IF w.s.prog_pagesize = 0
    THEN [w EXCEPT !.calls = Append(@, Call("ispWriteFlash", w.s.prog_address, b, 1, i))]
    ELSE PagedWrite(w, b, i)

\* The EEPROM branch of the loop body.
EEPROMWrite(w, b, i) ==
    [w EXCEPT !.calls = Append(@, Call("ispWriteEEPROM", w.s.prog_address, b, 0, i))]

\* if (prog_nbytes == 0) { ... }, entered with prog_nbytes already decremented
EndOfTransferNoFlush(w, b, i) ==
    IF w.s.prog_nbytes = 0
    THEN [w EXCEPT !.s.prog_state = PROG_STATE_IDLE, !.retVal = 1]
    ELSE w

EndOfTransferReturnsZero(w, b, i) ==
    IF w.s.prog_nbytes = 0
    THEN [w EXCEPT !.s.prog_state = PROG_STATE_IDLE,
                   !.calls =
                       IF /\ BitAnd(w.s.prog_blockflags, PROG_BLOCKFLAG_LAST) # 0
                          /\ w.s.prog_pagecounter # w.s.prog_pagesize
                       THEN Append(@, Call("ispFlushPage", w.s.prog_address, b, 0, i))
                       ELSE @]
    ELSE w

EndOfTransfer(w, b, i) ==
    IF w.s.prog_nbytes = 0
    THEN [w EXCEPT !.s.prog_state = PROG_STATE_IDLE,
                   !.calls =
                       IF /\ BitAnd(w.s.prog_blockflags, PROG_BLOCKFLAG_LAST) # 0
                          /\ w.s.prog_pagecounter # w.s.prog_pagesize
                       THEN Append(@, Call("ispFlushPage", w.s.prog_address, b, 0, i))
                       ELSE @,
                   !.retVal = 1]
    ELSE w

\* prog_nbytes--
DecNBytes(w) ==
    [w EXCEPT !.s.prog_nbytes = (@ + UIntMod - 1) % UIntMod]

\* One pass of the loop over the chunk, for byte b = data[i].
WriteByte(w, b, i) ==
    LET stored == IF w.s.prog_state = PROG_STATE_WRITEFLASH
                  THEN FlashWrite(w, b, i)
                  ELSE EEPROMWrite(w, b, i)
        ended == EndOfTransfer(DecNBytes(stored), b, i)
    IN  [ended EXCEPT !.s = IncAddress(@)]

RECURSIVE WriteLoop(_, _, _)
WriteLoop(w, data, i) ==
    IF i >= Len(data) THEN w ELSE WriteLoop(WriteByte(w, data[i + 1], i), data, i + 1)

Write(s, data) ==
    IF WriteStateWrong(s)
    THEN [Work(s) EXCEPT !.retVal = NoData]
    ELSE WriteLoop(Work(s), data, 0)

(***************************************************************************)
(* What the transport can hand to the handlers                             *)
(***************************************************************************)
\* The most bytes the transport moves through the reader and the writer in
\* one run.
MaxBytes == 9

Plain(data) ==
    [ data |-> data, PC2 |-> 1, signExtends |-> TRUE,
      miso |-> << 0, 0, 0, 0 >>, status |-> 0 ]

\* The requests that carry no parameters: an unknown vendor request (0 and
\* 11), Disconnect, and the HID class requests GET_REPORT and GET_IDLE, whose
\* numbers are those of Connect and Disconnect.
BareRequests ==
    { Plain(<< 192, 0, 0, 0, 0, 0, 0, 0 >>),
      Plain(<< 192, 11, 0, 0, 0, 0, 0, 0 >>),
      Plain(<< 192, USBASP_FUNC_DISCONNECT, 0, 0, 0, 0, 0, 0 >>),
      Plain(<< 161, USBRQ_HID_GET_REPORT, 0, 1, 0, 0, 2, 0 >>),
      Plain(<< 161, USBRQ_HID_GET_IDLE, 0, 0, 0, 0, 1, 0 >>) }

ConnectRequests ==
    { [Plain(<< 192, USBASP_FUNC_CONNECT, 0, 0, 0, 0, 0, 0 >>) EXCEPT !.PC2 = p]
        : p \in {0, 1} }

TransmitRequests ==
    { [Plain(<< 192, USBASP_FUNC_TRANSMIT, 172, 83, 0, 0, 0, 0 >>)
          EXCEPT !.miso = << 255, 172, 83, 0 >>] }

\* EnableProg, as a vendor request and as a class request that is no HID request
EnableProgRequests ==
    { [Plain(<< t, USBASP_FUNC_ENABLEPROG, 0, 0, 0, 0, 0, 0 >>) EXCEPT !.status = st]
        : t \in {192, 33}, st \in {0, 1} }

\* The outcomes of (data[3] << 8) for the address field a = << data[2], data[3] >>
ShiftOutcomes(a) == IF a[2] >= 128 THEN BOOLEAN ELSE {TRUE}

\* An arming request of kind k: address field a, page field p = << data[4],
\* data[5] >>, count field n = << data[6], data[7] >>
Arm(k, a, p, n, x) ==
    [Plain(<< 64, k, a[1], a[2], p[1], p[2], n[1], n[2] >>) EXCEPT !.signExtends = x]

ArmRequests(kinds, addrs, pages, counts) ==
    UNION { { Arm(k, a, p, n, x) : k \in kinds, p \in pages, n \in counts,
                                    x \in ShiftOutcomes(a) } : a \in addrs }

\* data[2..5] of SetLongAddress: 0x0001F000
LongAddressRequests ==
    { Plain(<< 64, USBASP_FUNC_SETLONGADDRESS, 0, 240, 1, 0, 0, 0 >>) }

\* SetIspSck with the selectors 3 and 7 in data[2]
IspSckRequests ==
    { Plain(<< 64, USBASP_FUNC_SETISPSCK, sel, 0, 0, 0, 0, 0 >>) : sel \in {3, 7} }

\* Requests of no known kind, with every field filled in: a class request
\* numbered 12 and a vendor request numbered 255.
UnknownRequests ==
    { Plain(<< 33, 12, 254, 255, 3, 3, 6, 0 >>),
      Plain(<< 64, 255, 254, 255, 3, 3, 6, 0 >>) }

\* The HID class request SET_IDLE, whose number is that of SetIspSck
SetIdleRequests ==
    { Plain(<< 33, USBRQ_HID_SET_IDLE, 0, 125, 0, 0, 0, 0 >>) }

\* The chunk lengths the transport uses.
ChunkLengths == 0..ChunkCapacity

\* The payload of a pushed chunk: distinct bytes.
Chunk(seed, len) == [ k \in 1..len |-> (seed + 37 * (k - 1)) % UCharMod ]

WriteInputs == { Chunk(243, len) : len \in ChunkLengths }

\* The protocol at large: every command, and transfers of 6 bytes of each
\* kind (program memory in pages of 4), from address 0 and from
\* 0xFFFE, two bytes before the 16-bit boundary.
SetupInputs ==
    BareRequests \cup ConnectRequests \cup TransmitRequests \cup EnableProgRequests
        \cup LongAddressRequests
        \cup ArmRequests({USBASP_FUNC_READFLASH, USBASP_FUNC_READEEPROM,
                         USBASP_FUNC_WRITEEEPROM},
                        {<< 0, 0 >>, << 254, 255 >>}, {<< 0, 0 >>}, {<< 6, 0 >>})
        \cup ArmRequests({USBASP_FUNC_WRITEFLASH},
                        {<< 0, 0 >>, << 254, 255 >>}, {<< 4, 3 >>},
                        {<< 6, 0 >>})

\* Programming: writes of 1, 5 and 6 bytes to program memory, unpaged and
\* with pages of 2, 3 and 257 bytes, under combinations of the block flags,
\* and writes to the EEPROM.
ProgramInputs ==
    ArmRequests({USBASP_FUNC_WRITEFLASH}, {<< 0, 0 >>},
                { << 0, 0 >>, << 0, 2 >>,
                  << 2, 1 >>, << 2, 3 >>,
                  << 3, 0 >>, << 3, 1 >>, << 3, 2 >>, << 3, 3 >>,
                  << 1, 19 >> },
                { << 1, 0 >>, << 5, 0 >>, << 6, 0 >> })
    \cup
    ArmRequests({USBASP_FUNC_WRITEEEPROM}, {<< 0, 0 >>}, {<< 0, 0 >>}, {<< 5, 0 >>})

\* The commands at large: every request above, around a read and a write of
\* 3 bytes of program memory (in pages of 2).
CommandInputs ==
    BareRequests \cup UnknownRequests \cup SetIdleRequests \cup ConnectRequests
        \cup TransmitRequests \cup EnableProgRequests \cup LongAddressRequests
        \cup IspSckRequests
        \cup ArmRequests({USBASP_FUNC_READFLASH}, {<< 0, 0 >>}, {<< 0, 0 >>},
                        {<< 3, 0 >>})
        \cup ArmRequests({USBASP_FUNC_WRITEFLASH}, {<< 0, 0 >>}, {<< 2, 3 >>},
                        {<< 3, 0 >>})

\* Reading: transfers of 1, 3, 8 and 9 bytes from program memory and from
\* the EEPROM.
ReadInputs ==
    ArmRequests({USBASP_FUNC_READFLASH, USBASP_FUNC_READEEPROM},
                {<< 0, 0 >>, << 254, 255 >>}, {<< 0, 0 >>},
                {<< 1, 0 >>, << 3, 0 >>, << 8, 0 >>, << 9, 0 >>})

\* Programming in pieces, in pages of 3 bytes: commands that begin a write
\* at address 0 (first-block flag), that continue one (no flag), that end
\* one (last-block flag), and that are a whole write (both flags).
SplitInputs ==
    ArmRequests({USBASP_FUNC_WRITEFLASH}, {<< 0, 0 >>}, {<< 3, 1 >>},
                {<< 1, 0 >>, << 2, 0 >>, << 4, 0 >>})
    \cup
    ArmRequests({USBASP_FUNC_WRITEFLASH}, {<< 1, 0 >>, << 2, 0 >>, << 4, 0 >>},
                {<< 3, 0 >>}, {<< 1, 0 >>, << 2, 0 >>})
    \cup
    ArmRequests({USBASP_FUNC_WRITEFLASH}, { << a, 0 >> : a \in 1..6 },
                {<< 3, 2 >>}, {<< 1, 0 >>, << 2, 0 >>, << 3, 0 >>})
    \cup
    ArmRequests({USBASP_FUNC_WRITEFLASH}, {<< 0, 0 >>}, {<< 3, 3 >>},
                {<< 5, 0 >>, << 6, 0 >>})

(***************************************************************************)
(* The state machine                                                       *)
(***************************************************************************)
Install(s) ==
    /\ firmware' = s.firmware
    /\ prog_state' = s.prog_state
    /\ prog_sck' = s.prog_sck
    /\ prog_address_newmode' = s.prog_address_newmode
    /\ prog_address' = s.prog_address
    /\ prog_nbytes' = s.prog_nbytes
    /\ prog_pagesize' = s.prog_pagesize
    /\ prog_blockflags' = s.prog_blockflags
    /\ prog_pagecounter' = s.prog_pagecounter
    /\ idleRate' = s.idleRate

\* The offsets, counted in bytes from the arming command, of the page flushes
\* among the calls cs of a chunk that began at offset base.
RECURSIVE FlushOffsets(_, _)
FlushOffsets(cs, base) ==
    IF cs = << >>
    THEN << >>
    ELSE IF Head(cs).op = "ispFlushPage"
    THEN << base + Head(cs).i >> \o FlushOffsets(Tail(cs), base)
    ELSE FlushOffsets(Tail(cs), base)

\* xfer follows the transfer armed last: the arming command (cmd), prog_address
\* and prog_nbytes as it left them, the bytes the reader or the writer has
\* handled since (count), the offsets of the page flushes since (flushed),
\* whether SetLongAddress has loaded prog_address since (relatched), and the
\* bytes moved in the whole run (moved).  It also keeps, of the commands
\* served: the selector of the last SetIspSck (sck), the address the last
\* SetLongAddress loaded and the bytes handled in extended mode since
\* (latched, since), and, when the transfer continues a write to program
\* memory that a command with the first-block flag began and whose commands
\* each got their byte count and had consecutive addresses, the bytes the
\* commands before it handled (before; 0 for the first command, -1 when the
\* transfer continues no such write).
InitFor(fw) ==
    /\ firmware = fw
    /\ prog_state = PROG_STATE_IDLE
    /\ prog_sck = USBASP_ISP_SCK_AUTO
    /\ prog_address_newmode = 0
    /\ prog_address = << 0, 0 >>
    /\ prog_nbytes = 0
    /\ prog_pagesize = 0
    /\ prog_blockflags = 0
    /\ prog_pagecounter = 0
    /\ idleRate = 0
    /\ xfer = [ cmd |-> 0, address |-> << 0, 0 >>, nbytes |-> 0, count |-> 0,
                flushed |-> << >>, relatched |-> FALSE, moved |-> 0,
                sck |-> USBASP_ISP_SCK_AUTO, latched |-> << 0, 0 >>, since |-> 0,
                before |-> -1 ]

Init == \E fw \in {FW2006, FW2009} : InitFor(fw)

Before(out, rq) ==
    IF Byte(rq.data, 1) # USBASP_FUNC_WRITEFLASH
    THEN -1
    ELSE IF BitAnd(out.s.prog_blockflags, PROG_BLOCKFLAG_FIRST) # 0
    THEN 0
    ELSE IF /\ xfer.cmd = USBASP_FUNC_WRITEFLASH
            /\ xfer.before >= 0
            /\ xfer.count = xfer.nbytes
            /\ BitAnd(prog_blockflags, PROG_BLOCKFLAG_LAST) = 0
            /\ out.s.prog_pagesize = prog_pagesize
            /\ out.s.prog_address = AddressPlus(firmware, xfer.address, xfer.nbytes)
    THEN xfer.before + xfer.nbytes
    ELSE -1

Armed(out, rq) ==
    IF out.branch = "arm"
    THEN [ cmd |-> Byte(rq.data, 1),
           address |-> out.s.prog_address,
           nbytes |-> out.s.prog_nbytes,
           count |-> 0,
           flushed |-> << >>,
           relatched |-> FALSE,
           moved |-> xfer.moved,
           sck |-> xfer.sck,
           latched |-> xfer.latched,
           since |-> xfer.since,
           before |-> Before(out, rq) ]
    ELSE IF out.branch = "setlongaddress"
    THEN [xfer EXCEPT !.relatched = TRUE,
                      !.latched = out.s.prog_address, !.since = 0]
    ELSE IF out.branch = "setispsck"
    THEN [xfer EXCEPT !.sck = Byte(rq.data, 2)]
    ELSE IF out.branch = "connect"
    THEN [xfer EXCEPT !.latched = << 0, 0 >>, !.since = 0]
    ELSE xfer

\* The bytes n just handled count as handled in extended mode.
Since(n) == IF prog_address_newmode # 0 THEN xfer.since + n ELSE xfer.since

usbFunctionSetup(rq) ==
    \E out \in { Setup(Session, rq) } :
        /\ Install(out.s)
        /\ xfer' = Armed(out, rq)

usbFunctionRead(len) ==
    \E w \in { Read(Session, len) } :
        /\ ReadStateWrong(Session) \/ xfer.moved + len <= MaxBytes
        /\ Install(w.s)
        /\ xfer' = [xfer EXCEPT !.count = @ + Len(w.calls),
                                !.moved = @ + Len(w.calls),
                                !.since = Since(Len(w.calls))]

usbFunctionWrite(data) ==
    \E w \in { Write(Session, data) } :
        /\ WriteStateWrong(Session) \/ xfer.moved + Len(data) <= MaxBytes
        /\ Install(w.s)
        /\ xfer' = IF WriteStateWrong(Session)
                   THEN xfer
                   ELSE [xfer EXCEPT !.count = @ + Len(data),
                                     !.moved = @ + Len(data),
                                     !.since = Since(Len(data)),
                                     !.flushed = @ \o FlushOffsets(w.calls, xfer.count)]

Next ==
    \/ \E rq \in SetupInputs : usbFunctionSetup(rq)
    \/ \E len \in ChunkLengths : usbFunctionRead(len)
    \/ \E data \in WriteInputs : usbFunctionWrite(data)

NextProgram ==
    \/ \E rq \in ProgramInputs : usbFunctionSetup(rq)
    \/ \E data \in WriteInputs : usbFunctionWrite(data)

NextCommands ==
    \/ \E rq \in CommandInputs : usbFunctionSetup(rq)
    \/ \E len \in ChunkLengths : usbFunctionRead(len)
    \/ \E data \in WriteInputs : usbFunctionWrite(data)

\* The transport pulls a read transfer in chunks of 8 bytes, the last one of
\* what is then left of the declared count, and stops at the declared count.
NextRead ==
    \/ \E rq \in ReadInputs : usbFunctionSetup(rq)
    \/ \E len \in 1..ChunkCapacity :
           /\ len = IF xfer.nbytes - xfer.count < ChunkCapacity
                    THEN xfer.nbytes - xfer.count
                    ELSE ChunkCapacity
           /\ usbFunctionRead(len)

NextSplit ==
    \/ \E rq \in SplitInputs : usbFunctionSetup(rq)
    \/ \E data \in WriteInputs : usbFunctionWrite(data)

\* Either firmware under every command
Spec == Init /\ [][Next]_vars

\* Either firmware programming a target
SpecProgram == Init /\ [][NextProgram]_vars

\* Either firmware under every request, known or not
SpecCommands == Init /\ [][NextCommands]_vars

\* Either firmware read by the transport
SpecRead == Init /\ [][NextRead]_vars

\* Either firmware programming a target with writes cut into several commands
SpecSplit == Init /\ [][NextSplit]_vars

(***************************************************************************)
(* Properties                                                              *)
(***************************************************************************)
IsFirstBlock == BitAnd(prog_blockflags, PROG_BLOCKFLAG_FIRST) # 0

IsLastBlock == BitAnd(prog_blockflags, PROG_BLOCKFLAG_LAST) # 0

Min(a, b) == IF a <= b THEN a ELSE b

ReadStates == { PROG_STATE_READFLASH, PROG_STATE_READEEPROM }

WriteStates == { PROG_STATE_WRITEFLASH, PROG_STATE_WRITEEEPROM }

ArmingCommands ==
    { USBASP_FUNC_READFLASH, USBASP_FUNC_READEEPROM,
      USBASP_FUNC_WRITEFLASH, USBASP_FUNC_WRITEEEPROM }

\* The command a request is to the dispatcher: its bRequest, unless the HID
\* front of the 2009 firmware answers it (then 0, no command).
Command(rq) ==
    IF /\ firmware = FW2009
       /\ IsClassRequest(rq.data)
       /\ Byte(rq.data, 1) \in {USBRQ_HID_GET_REPORT, USBRQ_HID_GET_IDLE, USBRQ_HID_SET_IDLE}
    THEN 0
    ELSE Byte(rq.data, 1)

\* The bytes of the armed transfer handled so far (the writer may be handed
\* more bytes than the transfer has left).
Handled == Min(xfer.count, xfer.nbytes)

Complete == xfer.count >= xfer.nbytes

\* The offsets of the bytes that fill a page of P bytes, among the first k
NaturalOffsets(P, k) == [ j \in 1..(k \div P) |-> j * P - 1 ]

\* A write to program memory in pages of 1..255 bytes is in hand or done.
PagedTransfer ==
    /\ xfer.cmd = USBASP_FUNC_WRITEFLASH
    /\ prog_pagesize \in 1..255
    /\ xfer.nbytes >= 1

\* Pushed now, the chunk data has every page flush get the address and the
\* value of the byte the writer is at.
FlushesCarryOwnByte(data) ==
    \A w \in { Write(Session, data) } :
        \A j \in DOMAIN w.calls :
            w.calls[j].op = "ispFlushPage" =>
                /\ w.calls[j].addr = AddressPlus(firmware, prog_address, w.calls[j].i)
                /\ w.calls[j].val = data[w.calls[j].i + 1]

C2_NaturalPageFlushes ==
    (PagedTransfer /\ IsFirstBlock /\ xfer.nbytes % prog_pagesize = 0) =>
        /\ xfer.flushed = NaturalOffsets(prog_pagesize, Handled)
        /\ prog_pagecounter = prog_pagesize - (Handled % prog_pagesize)
        /\ \A data \in WriteInputs : FlushesCarryOwnByte(data)

\* C2's case: such a transfer of at least two pages is done.
C2_Witness ==
    /\ PagedTransfer /\ IsFirstBlock /\ xfer.nbytes % prog_pagesize = 0
    /\ Complete
    /\ Len(xfer.flushed) = xfer.nbytes \div prog_pagesize
    /\ Len(xfer.flushed) >= 2

\* C3: in a write to program memory armed with IsFirstBlock, pages of P in
\* 1..255 bytes and a byte count N >= 1 that is no multiple of P, the full
\* pages are flushed at P-1, 2P-1, ...; with IsLastBlock one more flush is
\* issued on the final byte (offset N-1) with its address and value; without
\* IsLastBlock there is no such flush and the last page stays partly filled.
C3_ForcedFinalFlush ==
    (PagedTransfer /\ IsFirstBlock /\ xfer.nbytes % prog_pagesize # 0) =>
        /\ xfer.flushed =
               NaturalOffsets(prog_pagesize, Handled)
                   \o (IF IsLastBlock /\ Complete THEN << xfer.nbytes - 1 >> ELSE << >>)
        /\ (Complete /\ ~IsLastBlock) => prog_pagecounter # prog_pagesize
        /\ \A data \in WriteInputs : FlushesCarryOwnByte(data)

\* C3's case: such a transfer with IsLastBlock, longer than a page, is done.
C3_Witness ==
    /\ PagedTransfer /\ IsFirstBlock /\ IsLastBlock
    /\ xfer.nbytes % prog_pagesize # 0
    /\ xfer.nbytes > prog_pagesize
    /\ Complete
    /\ xfer.flushed[Len(xfer.flushed)] = xfer.nbytes - 1

\* C4, as stated: in a write to program memory armed with IsFirstBlock and
\* IsLastBlock, any page size in 1..4095 and any byte count N >= 1, no byte
\* offset gets two page flushes.
C4_NoPageFlushedTwice ==
    ( /\ xfer.cmd = USBASP_FUNC_WRITEFLASH
      /\ IsFirstBlock /\ IsLastBlock
      /\ prog_pagesize \in 1..4095
      /\ xfer.nbytes >= 1 ) =>
        \A j, k \in DOMAIN xfer.flushed :
            j # k => xfer.flushed[j] # xfer.flushed[k]

\* C5: in extended mode an arming command leaves prog_address as it is; in
\* legacy mode it loads the low word from its address field; the mode is
\* switched on by SetLongAddress alone and off by Connect alone, and the
\* reader and the writer never switch it.
C5_ExtendedAddressPersistence ==
    /\ \A rq \in SetupInputs :
           \A after \in { Setup(Session, rq).s } :
               /\ (prog_address_newmode # 0 /\ Command(rq) \in ArmingCommands) =>
                      after.prog_address = prog_address
               /\ (prog_address_newmode = 0 /\ Command(rq) \in ArmingCommands) =>
                      after.prog_address[2] = Byte(rq.data, 2) + 256 * Byte(rq.data, 3)
               /\ (prog_address_newmode = 0 /\ after.prog_address_newmode # 0) =>
                      Command(rq) = USBASP_FUNC_SETLONGADDRESS
               /\ (prog_address_newmode # 0 /\ after.prog_address_newmode = 0) =>
                      Command(rq) = USBASP_FUNC_CONNECT
               /\ (firmware = FW2009 /\ Command(rq) = USBASP_FUNC_SETLONGADDRESS) =>
                      after.prog_address_newmode # 0
               /\ Command(rq) = USBASP_FUNC_CONNECT => after.prog_address_newmode = 0
    /\ \A len \in ChunkLengths :
           Read(Session, len).s.prog_address_newmode = prog_address_newmode
    /\ \A data \in WriteInputs :
           Write(Session, data).s.prog_address_newmode = prog_address_newmode

\* C5's case: in extended mode, a transfer armed after SetLongAddress(0x1F000)
\* runs from that address, not from its legacy field (0 or 0xFFFE).
C5_Witness ==
    /\ prog_address_newmode # 0
    /\ xfer.cmd \in ArmingCommands
    /\ ~xfer.relatched
    /\ xfer.address[1] = 1
    /\ xfer.count > 0

\* C6: a reader call outside the read states and a writer call outside the
\* write states return 0xFF, invoke no primitive and leave the session as it is.
C6_ProtocolStateError ==
    /\ prog_state \notin ReadStates =>
           \A len \in ChunkLengths :
               Read(Session, len) = [ s |-> Session, calls |-> << >>, retVal |-> 255 ]
    /\ prog_state \notin WriteStates =>
           \A data \in WriteInputs :
               Write(Session, data) = [ s |-> Session, calls |-> << >>, retVal |-> 255 ]

\* C6's case: in the middle of a write transfer a full chunk is pulled from
\* the reader, which refuses it.
C6_Witness ==
    /\ prog_state = PROG_STATE_WRITEFLASH
    /\ xfer.count > 0
    /\ Read(Session, ChunkCapacity).retVal = 255

\* C7: in a write transfer armed with N >= 1 bytes, a writer call returns 1
\* exactly when prog_nbytes reaches 0 in it, which is the call that takes the
\* N-th byte; the calls before return 0 and leave the write state; the
\* call that returns 1 leaves prog_state idle.
C7_WriterCompletionFlag ==
    (prog_state \in WriteStates /\ xfer.nbytes >= 1) =>
        /\ prog_nbytes = xfer.nbytes - xfer.count
        /\ \A data \in WriteInputs :
               \A w \in { Write(Session, data) } :
                   /\ w.retVal = IF prog_nbytes \in 1..Len(data) THEN 1 ELSE 0
                   /\ w.retVal = 1 => w.s.prog_state = PROG_STATE_IDLE
                   /\ w.retVal = 0 => w.s.prog_state = prog_state

\* C7's case: a write transfer of several bytes has been completed.
C7_Witness ==
    /\ xfer.cmd = USBASP_FUNC_WRITEFLASH
    /\ xfer.nbytes > 1
    /\ Complete
    /\ prog_state = PROG_STATE_IDLE

\* C8: in a read state, a reader call with len < 8 (0 too) leaves prog_state
\* idle whatever prog_nbytes is, and a call with len = 8 leaves prog_state as
\* it is.
C8_ShortReadTerminates ==
    prog_state \in ReadStates =>
        \A len \in ChunkLengths :
            Read(Session, len).s.prog_state =
                IF len < 8 THEN PROG_STATE_IDLE ELSE prog_state

\* C8's case: a read transfer was ended by a short chunk before its byte
\* count was delivered.
C8_Witness ==
    /\ xfer.cmd \in {USBASP_FUNC_READFLASH, USBASP_FUNC_READEEPROM}
    /\ prog_state = PROG_STATE_IDLE
    /\ xfer.count > 0
    /\ xfer.count < xfer.nbytes

\* C9: in a write to the EEPROM, whatever earlier commands left in the
\* session, every byte goes to ispWriteEEPROM at its own address, no page is
\* flushed and prog_pagecounter is not touched.
C9_EepromNeverPaged ==
    xfer.cmd = USBASP_FUNC_WRITEEEPROM =>
        /\ xfer.flushed = << >>
        /\ prog_state = PROG_STATE_WRITEEEPROM =>
               \A data \in WriteInputs :
                   \A w \in { Write(Session, data) } :
                       /\ w.calls =
                              [ k \in 1..Len(data) |->
                                  Call("ispWriteEEPROM",
                                       AddressPlus(firmware, prog_address, k - 1),
                                       data[k], 0, k - 1) ]
                       /\ w.s.prog_pagecounter = prog_pagecounter

\* C9's case: a write to the EEPROM is done while prog_pagecounter, left by
\* an earlier write to program memory, differs from prog_pagesize.
C9_Witness ==
    /\ xfer.cmd = USBASP_FUNC_WRITEEEPROM
    /\ xfer.nbytes >= 1
    /\ Complete
    /\ prog_pagecounter # prog_pagesize

\* C10: in a write to program memory with page size 0, every byte of the
\* transfer goes to ispWriteFlash at its own address with the commit flag
\* set, and no page flush is given another address than that of the byte the
\* writer is at.
C10_UnpagedWrite ==
    ( /\ xfer.cmd = USBASP_FUNC_WRITEFLASH
      /\ prog_pagesize = 0
      /\ prog_state = PROG_STATE_WRITEFLASH ) =>
        \A data \in WriteInputs :
            \A w \in { Write(Session, data) } :
                /\ \A k \in 1..Min(Len(data), prog_nbytes) :
                       \E j \in DOMAIN w.calls :
                           w.calls[j] =
                               Call("ispWriteFlash",
                                    AddressPlus(firmware, prog_address, k - 1),
                                    data[k], 1, k - 1)
                /\ \A j \in DOMAIN w.calls :
                       w.calls[j].op = "ispFlushPage" =>
                           w.calls[j].addr =
                               AddressPlus(firmware, prog_address, w.calls[j].i)

\* C10's case: an unpaged write to program memory is done and has flushed a
\* page, prog_pagecounter having been left nonzero by an earlier paged write.
C10_Witness ==
    /\ xfer.cmd = USBASP_FUNC_WRITEFLASH
    /\ prog_pagesize = 0
    /\ Complete
    /\ xfer.flushed # << >>

\* The commands that start no transfer.
NonArmingCommands ==
    { USBASP_FUNC_CONNECT, USBASP_FUNC_DISCONNECT, USBASP_FUNC_TRANSMIT,
      USBASP_FUNC_ENABLEPROG, USBASP_FUNC_SETLONGADDRESS, USBASP_FUNC_SETISPSCK }

\* The calls of ispSetSCKOption among the calls cs
ClockSelections(cs) == SelectSeq(cs, LAMBDA c : c.op = "ispSetSCKOption")

\* C11: a request whose kind (data[1]) is none of 1..10 gets reply length 0
\* and leaves the whole session as it is, in the middle of a transfer too.
C11_UnrecognizedCommandsInert ==
    \A rq \in CommandInputs :
        Byte(rq.data, 1) \notin 1..10 =>
            \A out \in { Setup(Session, rq) } :
                /\ out.len = 0
                /\ out.s = Session

\* C11's case: a write transfer is under way, some of its bytes handled, and a
\* request of kind 255 is answered with length 0.
C11_Witness ==
    /\ prog_state = PROG_STATE_WRITEFLASH
    /\ xfer.count > 0
    /\ xfer.count < xfer.nbytes
    /\ \E rq \in UnknownRequests :
           Byte(rq.data, 1) = 255 /\ Setup(Session, rq).len = 0

\* C12 (2009 firmware, the one with SetIspSck): prog_sck is the selector of
\* the last SetIspSck, or USBASP_ISP_SCK_AUTO when there was none; Connect
\* calls ispSetSCKOption once, with USBASP_ISP_SCK_8 when the strap pin PC2 is
\* low and with that selector otherwise; SetIspSck calls no ispSetSCKOption
\* and replies the one byte 0.
C12_ClockSelectionOrdering ==
    firmware = FW2009 =>
        /\ prog_sck = xfer.sck
        /\ \A rq \in CommandInputs :
               \A out \in { Setup(Session, rq) } :
                   /\ Command(rq) = USBASP_FUNC_CONNECT =>
                          ClockSelections(out.calls) =
                              << Call("ispSetSCKOption", NoAddress,
                                      IF rq.PC2 = 0 THEN USBASP_ISP_SCK_8 ELSE xfer.sck,
                                      0, 0) >>
                   /\ Command(rq) = USBASP_FUNC_SETISPSCK =>
                          /\ ClockSelections(out.calls) = << >>
                          /\ out.len = 1
                          /\ out.reply = << 0 >>

\* C12's case: SetIspSck(7) was the last one served, and a Connect with the
\* strap pin high selects 7.
C12_Witness ==
    /\ firmware = FW2009
    /\ xfer.sck = 7
    /\ \E rq \in ConnectRequests :
           /\ rq.PC2 = 1
           /\ ClockSelections(Setup(Session, rq).calls)[1].val = 7

\* The calls among cs that write to the target's memory
MemoryWrites(cs) ==
    SelectSeq(cs, LAMBDA c : c.op \in {"ispWriteFlash", "ispWriteEEPROM"})

\* C13, as stated: in a write transfer armed with N >= 1 bytes, a writer call
\* writes as many bytes as the chunk has or, when that is less, as prog_nbytes
\* says are left, and invokes no primitive for a chunk byte past those.
C13_WriteEndsAtZero ==
    (prog_state \in WriteStates /\ xfer.nbytes >= 1) =>
        \A data \in WriteInputs :
            \A w \in { Write(Session, data) } :
                /\ Len(MemoryWrites(w.calls)) = Min(Len(data), prog_nbytes)
                /\ \A j \in DOMAIN w.calls : w.calls[j].i < prog_nbytes

\* C14, as stated: a read transfer armed with N >= 1 bytes and pulled by the
\* transport in chunks of min(8, bytes still to deliver) is idle once its
\* N-th byte is delivered.
C14_ReadReturnsToIdle ==
    ( /\ xfer.cmd \in {USBASP_FUNC_READFLASH, USBASP_FUNC_READEEPROM}
      /\ xfer.nbytes >= 1
      /\ xfer.count = xfer.nbytes ) =>
        prog_state = PROG_STATE_IDLE

\* C15, as stated: after k <= N bytes of a transfer armed with N bytes, read
\* or write, prog_nbytes is N - k.
C15_RemainingBytesBookkeeping ==
    (xfer.cmd \in ArmingCommands /\ xfer.count <= xfer.nbytes) =>
        prog_nbytes = xfer.nbytes - xfer.count

\* C16, as stated: WriteFlash with the first-block flag leaves prog_pagesize =
\* data[4] + 16 * (data[5] & 0xF0) and prog_pagecounter = prog_pagesize, for
\* every page field; and prog_pagecounter = prog_pagesize right after every
\* page flush.
C16_PageCounterReset ==
    /\ \A rq \in ProgramInputs :
           ( /\ Command(rq) = USBASP_FUNC_WRITEFLASH
             /\ BitAnd(Byte(rq.data, 5), PROG_BLOCKFLAG_FIRST) # 0 ) =>
               \A after \in { Setup(Session, rq).s } :
                   /\ after.prog_pagesize =
                          Byte(rq.data, 4) + 16 * BitAnd(Byte(rq.data, 5), 240)
                   /\ after.prog_pagecounter = after.prog_pagesize
    /\ prog_state = PROG_STATE_WRITEFLASH =>
           \A data \in WriteInputs :
               \A w \in { Write(Session, data) } :
                   ( /\ w.calls # << >>
                     /\ w.calls[Len(w.calls)].op = "ispFlushPage" ) =>
                       w.s.prog_pagecounter = w.s.prog_pagesize

\* C17, as stated: in legacy mode an arming command leaves prog_address =
\* data[2] + 256 * data[3], high word 0, and prog_nbytes = data[6] + 256 *
\* data[7], for every value of the bytes.
C17_LegacyAddressDecoding ==
    prog_address_newmode = 0 =>
        \A rq \in SetupInputs :
            Command(rq) \in ArmingCommands =>
                \A after \in { Setup(Session, rq).s } :
                    /\ after.prog_address =
                           << 0, Byte(rq.data, 2) + 256 * Byte(rq.data, 3) >>
                    /\ after.prog_nbytes = Byte(rq.data, 6) + 256 * Byte(rq.data, 7)

\* The session fields that describe the transfer
TransferFields(s) ==
    << s.prog_state, s.prog_nbytes, s.prog_pagesize, s.prog_blockflags,
       s.prog_pagecounter >>

\* C18: Connect, Disconnect, Transmit, EnableProg, SetIspSck and
\* SetLongAddress leave prog_state, prog_nbytes, prog_pagesize,
\* prog_blockflags and prog_pagecounter as they are, so that a transfer under
\* way is still served by the reader or the writer after them; prog_state
\* changes only by an arming command, by a reader call with a chunk shorter
\* than 8, or by a writer call in which prog_nbytes reaches 0.
C18_OnlyArmingAndCompletion ==
    /\ \A rq \in CommandInputs :
           \A out \in { Setup(Session, rq) } :
               /\ Command(rq) \in NonArmingCommands =>
                      /\ TransferFields(out.s) = TransferFields(Session)
                      /\ prog_state \in WriteStates =>
                             Write(out.s, Chunk(243, 1)).retVal # NoData
                      /\ prog_state \in ReadStates =>
                             Read(out.s, 1).retVal # NoData
               /\ out.s.prog_state # prog_state => Command(rq) \in ArmingCommands
    /\ \A len \in ChunkLengths :
           Read(Session, len).s.prog_state # prog_state =>
               prog_state \in ReadStates /\ len < ChunkCapacity
    /\ \A data \in WriteInputs :
           Write(Session, data).s.prog_state # prog_state =>
               prog_state \in WriteStates /\ prog_nbytes \in 1..Len(data)

\* C18's case: a write transfer armed in extended mode has had a Connect
\* since (the mode is off again) and bytes handled, and the writer takes the
\* next byte.
C18_Witness ==
    /\ prog_state = PROG_STATE_WRITEFLASH
    /\ xfer.address[1] = 1
    /\ ~xfer.relatched
    /\ prog_address_newmode = 0
    /\ xfer.count > 0
    /\ xfer.count < xfer.nbytes
    /\ Write(Session, Chunk(243, 1)).retVal = 0

\* The session that one WriteFlash command with both block flags, pages of P
\* bytes, N bytes and the address field a leaves after the writer has taken k
\* bytes of it.
WholeWrite(P, a, N, k) ==
    Write(Setup(Session,
                Arm(USBASP_FUNC_WRITEFLASH, a,
                    << P, PROG_BLOCKFLAG_FIRST + PROG_BLOCKFLAG_LAST >>,
                    << N % UCharMod, N \div UCharMod >>, TRUE)).s,
          Chunk(0, k)).s

\* The address field of the first command of the write that the transfer
\* continues
WholeStart ==
    LET low == (xfer.address[2] + UIntMod - xfer.before) % UIntMod
    IN  << low % UCharMod, low \div UCharMod >>

\* The byte counts the write that the transfer continues may have as a whole:
\* it ends with this command if the command has the last-block flag, and
\* goes on in a later command otherwise.
WholeCounts ==
    IF IsLastBlock
    THEN { xfer.before + xfer.nbytes }
    ELSE (xfer.before + xfer.nbytes + 1)..MaxBytes

\* C19: a write to program memory in pages of P in 1..255 bytes sent as
\* several WriteFlash commands (first-block flag on the first only,
\* last-block flag on the last only, consecutive addresses, each given its
\* byte count) has the writer make, for every chunk, the very calls that it
\* makes at the same place of the same write sent as one command with both
\* flags; prog_pagecounter is carried from command to command, and a command
\* without the last-block flag ends without a forced flush.
C19_SplitWriteSameCalls ==
    ( /\ xfer.cmd = USBASP_FUNC_WRITEFLASH
      /\ xfer.before >= 0
      /\ prog_pagesize \in 1..255
      /\ xfer.nbytes >= 1 ) =>
        /\ prog_pagecounter =
               prog_pagesize - ((xfer.before + Handled) % prog_pagesize)
        /\ ~IsLastBlock =>
               \A j \in DOMAIN xfer.flushed :
                   (xfer.before + xfer.flushed[j] + 1) % prog_pagesize = 0
        /\ prog_state = PROG_STATE_WRITEFLASH =>
               \A N \in WholeCounts :
                   \A whole \in { WholeWrite(prog_pagesize, WholeStart, N,
                                             xfer.before + xfer.count) } :
                       \A data \in WriteInputs :
                           Len(data) <= prog_nbytes =>
                               Write(Session, data).calls = Write(whole, data).calls

\* C19's case: the last of several commands is done; the page it began in
\* was begun by the command before it, and it flushed pages.
C19_Witness ==
    /\ xfer.cmd = USBASP_FUNC_WRITEFLASH
    /\ xfer.before > 0
    /\ prog_pagesize \in 1..255
    /\ xfer.before % prog_pagesize # 0
    /\ IsLastBlock /\ ~IsFirstBlock
    /\ xfer.nbytes >= 1
    /\ Complete
    /\ Len(xfer.flushed) >= 2

\* C20: in extended mode prog_address is the address the last SetLongAddress
\* loaded plus the bytes handled since, whatever arming commands were served
\* in between; so a transfer armed after SetLongAddress(A) and N bytes of
\* earlier transfers starts at A + N.
C20_ExtendedModeContinuation ==
    prog_address_newmode # 0 =>
        /\ prog_address = AddressPlus(firmware, xfer.latched, xfer.since)
        /\ (xfer.cmd \in ArmingCommands /\ ~xfer.relatched) =>
               /\ xfer.since >= xfer.count
               /\ xfer.address =
                      AddressPlus(firmware, xfer.latched, xfer.since - xfer.count)

\* C20's case: after SetLongAddress(0x1F000) and a transfer of 3 bytes, a
\* second transfer was armed and starts at 0x1F003.
C20_Witness ==
    /\ prog_address_newmode # 0
    /\ xfer.cmd \in ArmingCommands
    /\ ~xfer.relatched
    /\ xfer.latched = << 1, 61440 >>
    /\ xfer.since - xfer.count = 3
    /\ xfer.address = << 1, 61443 >>

====
